---- MODULE Spec2Model ----
(***************************************************************************)
(* Model of bpftrace's SemanticAnalyser (src/src/semantic_analyser.cpp):   *)
(* the two-pass visitor that infers expression types, records the key      *)
(* signature and value type of every map, and accumulates diagnostics.     *)
(*                                                                         *)
(* The recursive visitor is unfolded into a stack machine.  A frame is one *)
(* active visit(...) call: the node, the number of children whose accept() *)
(* has returned, and the handler's local vector of types.  Accept pushes   *)
(* the next child (the call child->accept); Visit<Kind> is what the        *)
(* handler does once its last child has returned, followed by the return   *)
(* into the caller's frame.                                                *)
(***************************************************************************)
EXTENDS Integers, Sequences, FiniteSets, TLC

VARIABLES root_, pass_, type_, err_, map_args_, map_val_, stack, pc, cerr, ret

vars == <<root_, pass_, type_, err_, map_args_, map_val_, stack, pc, cerr, ret>>

----------------------------------------------------------------------------
(* Bounds of the explored programs.                                        *)

MaxKeys == 2

MaxArgs == 1

MaxProbes == 2

----------------------------------------------------------------------------
(* enum class Type, and what a read through map_val_.end() may yield.      *)

TNone == "Type::none"

TInteger == "Type::integer"

TQuantize == "Type::quantize"

TCount == "Type::count"

Types == {TNone, TInteger, TQuantize, TCount}

\* bit patterns of a Type that are none of the enumerators (two, so that two
\* such values can differ)
OutOfRange == {"Type(out of range) a", "Type(out of range) b"}

AnyType == Types \cup OutOfRange

Aborted == "abort()"

typestr(t) ==
  CASE t = TNone     -> "none"
    [] t = TInteger  -> "integer"
    [] t = TQuantize -> "quantize"
    [] t = TCount    -> "count"
    [] OTHER         -> Aborted

----------------------------------------------------------------------------
(* The syntax tree.  Every node is [kind, ident, kids]: ident is the       *)
(* builtin, function or map name, kids the children in visiting order.     *)

Node(kind, ident, kids) == [kind |-> kind, ident |-> ident, kids |-> kids]

Integer == Node("Integer", "", <<>>)

Builtin(ident) == Node("Builtin", ident, <<>>)

Call(func, vargs) == Node("Call", func, vargs)

Map(ident, vargs) == Node("Map", ident, vargs)

Binop(left, right) == Node("Binop", "", <<left, right>>)

Unop(expr) == Node("Unop", "", <<expr>>)

ExprStatement(expr) == Node("ExprStatement", "", <<expr>>)

AssignMapStatement(map, expr) == Node("AssignMapStatement", "", <<map, expr>>)

AssignMapCallStatement(map, call) == Node("AssignMapCallStatement", "", <<map, call>>)

Predicate(expr) == Node("Predicate", "", <<expr>>)

\* pred is <<>> (no predicate) or <<Predicate(e)>>
Probe(pred, stmts) == Node("Probe", "", pred \o stmts)

Program(probes) == Node("Program", "", probes)

----------------------------------------------------------------------------
(* Diagnostics: one record per line written to err_.  detail holds the     *)
(* type names the message prints through typestr().                        *)

Diag(kind, ident, detail) == [kind |-> kind, ident |-> ident, detail |-> detail]

\* typestr() applied to each element of a vector of types, as the loops
\* `for (Type t : args) err_ << typestr(t)` do
RECURSIVE typestrs(_)
typestrs(ts) ==
  IF ts = <<>> THEN <<>> ELSE <<typestr(Head(ts))>> \o typestrs(Tail(ts))

\* a message whose formatting ran into typestr()'s default: abort()
Aborts(detail) == \E i \in 1..Len(detail) : detail[i] = Aborted

----------------------------------------------------------------------------
(* Frames of the visitor.                                                  *)

Frame(node) == [node |-> node, i |-> 0, args |-> <<>>]

Top == Head(stack)

\* the handler of kind k is at the point after its last child has returned
AtVisit(k) ==
  /\ pc = "walk"
  /\ stack # <<>>
  /\ Top.node.kind = k
  /\ Top.i = Len(Top.node.kids)

\* accept() returns into the caller: one more child is done, and visit(Map)
\* and visit(Binop) copy type_ into their locals (args.push_back, lhs, rhs)
Return(t) ==
  LET rest == Tail(stack) IN
  IF rest = <<>> THEN <<>>
  ELSE LET f == Head(rest) IN
       <<[f EXCEPT !.i = @ + 1,
                   !.args = IF f.node.kind \in {"Map", "Binop"}
                            THEN Append(@, t) ELSE @]>> \o Tail(rest)

\* std::abort(): the process is gone
Abort ==
  /\ pc' = "aborted"
  /\ UNCHANGED <<root_, pass_, type_, err_, map_args_, map_val_, stack, cerr, ret>>

----------------------------------------------------------------------------
(* The visitor.                                                            *)

\* child->accept(*this) for the next child of the visit on top
Accept ==
  /\ pc = "walk"
  /\ stack # <<>>
  /\ Top.i < Len(Top.node.kids)
  /\ stack' = <<Frame(Top.node.kids[Top.i + 1])>> \o stack
  /\ UNCHANGED <<root_, pass_, type_, err_, map_args_, map_val_, pc, cerr, ret>>

VisitInteger ==
  /\ AtVisit("Integer")
  /\ type_' = TInteger
  /\ stack' = Return(type_')
  /\ UNCHANGED <<root_, pass_, err_, map_args_, map_val_, pc, cerr, ret>>

KnownBuiltin(ident) == ident = "nsecs" \/ ident = "pid" \/ ident = "tid"

VisitBuiltin ==
  /\ AtVisit("Builtin")
  /\ IF KnownBuiltin(Top.node.ident)
     THEN /\ type_' = TInteger
          /\ err_' = err_
     ELSE /\ type_' = TNone
          /\ err_' = Append(err_, Diag("Unknown builtin", Top.node.ident, <<>>))
  /\ stack' = Return(type_')
  /\ UNCHANGED <<root_, pass_, map_args_, map_val_, pc, cerr, ret>>

\* seeded fault: the type depends on the number of arguments as well
CallTypeByArity(func, nargs) ==
  IF func = "quantize" /\ nargs = 1 THEN TQuantize
  ELSE IF func = "count" /\ nargs = 0 THEN TCount
  ELSE TNone

\* the type visit(Call) leaves in type_
CallType(func, nargs) ==
  IF func = "quantize" THEN TQuantize
  ELSE IF func = "count" THEN TCount
  ELSE TNone

\* the diagnostics visit(Call) writes
CallErrors(func, nargs) ==
  IF func = "quantize"
  THEN IF nargs # 1 THEN <<Diag("quantize() should take 1 argument", func, <<>>)>> ELSE <<>>
  ELSE IF func = "count"
  THEN IF nargs # 0 THEN <<Diag("count() should take 0 arguments", func, <<>>)>> ELSE <<>>
  ELSE <<Diag("Unknown function", func, <<>>)>>

VisitCall ==
  /\ AtVisit("Call")
  /\ LET nargs == Len(Top.node.kids) IN
       /\ type_' = CallType(Top.node.ident, nargs)
       /\ err_' = err_ \o CallErrors(Top.node.ident, nargs)
  /\ stack' = Return(type_')
  /\ UNCHANGED <<root_, pass_, map_args_, map_val_, pc, cerr, ret>>

\* map_args_.find(ident) hit: compare, never write
MapArgsErrors(ident, args) ==
  IF map_args_[ident] # args
  THEN <<Diag("Argument mismatch", ident, typestrs(args) \o typestrs(map_args_[ident]))>>
  ELSE <<>>

\* map_args_.insert({ident, args}) on a miss, nothing on a hit
MapArgsAfter(ident, args) ==
  IF ident \in DOMAIN map_args_ THEN map_args_ ELSE map_args_ @@ (ident :> args)

\* map_val_.find(ident)->second: on a miss the iterator is end(), and the
\* read through it is undefined: any bit pattern of a Type may come back
MapValRead(ident) ==
  IF ident \in DOMAIN map_val_ THEN {map_val_[ident]} ELSE AnyType

VisitMap ==
  /\ AtVisit("Map")
  /\ LET ident == Top.node.ident
         args  == Top.args
         errs  == IF ident \in DOMAIN map_args_ THEN MapArgsErrors(ident, args) ELSE <<>>
     IN  IF errs # <<>> /\ Aborts(errs[1].detail)
         THEN Abort
         ELSE /\ err_' = err_ \o errs
              /\ map_args_' = MapArgsAfter(ident, args)
              /\ type_' \in MapValRead(ident)
              /\ stack' = Return(type_')
              /\ UNCHANGED <<root_, pass_, map_val_, pc, cerr, ret>>

\* the operand check of visit(Binop)
BinopErrors(lhs, rhs) ==
  IF pass_ = 2 /\ lhs # rhs
  THEN <<Diag("Type mismatch for operator", "", <<typestr(lhs), typestr(rhs)>>)>>
  ELSE <<>>

VisitBinop ==
  /\ AtVisit("Binop")
  /\ LET lhs  == Top.args[1]
         rhs  == Top.args[2]
         errs == BinopErrors(lhs, rhs)
     IN  IF errs # <<>> /\ Aborts(errs[1].detail)
         THEN Abort
         ELSE /\ err_' = err_ \o errs
              /\ type_' = TInteger
              /\ stack' = Return(type_')
              /\ UNCHANGED <<root_, pass_, map_args_, map_val_, pc, cerr, ret>>

VisitUnop ==
  /\ AtVisit("Unop")
  /\ type_' = TInteger
  /\ stack' = Return(type_')
  /\ UNCHANGED <<root_, pass_, err_, map_args_, map_val_, pc, cerr, ret>>

VisitExprStatement ==
  /\ AtVisit("ExprStatement")
  /\ stack' = Return(type_)
  /\ UNCHANGED <<root_, pass_, type_, err_, map_args_, map_val_, pc, cerr, ret>>

\* map_val_.find(map_ident) hit in visit(AssignMapStatement)
AssignMapErrors(ident, t) ==
  IF map_val_[ident] # t
  THEN <<Diag("Type mismatch for map", ident, <<typestr(t), typestr(map_val_[ident])>>)>>
  ELSE <<>>

\* map_val_.find(map_ident) hit in visit(AssignMapCallStatement): the message
\* names the function, and prints only the recorded type
AssignMapCallErrors(ident, func, t) ==
  IF map_val_[ident] # t
  THEN <<Diag("Type mismatch for map", ident, <<func, typestr(map_val_[ident])>>)>>
  ELSE <<>>

\* seeded fault: the assignment overwrites the recorded value type
MapValOverwritten(ident, t) ==
  [m \in DOMAIN map_val_ \cup {ident} |-> IF m = ident THEN t ELSE map_val_[m]]

\* map_val_.insert({map_ident, type_}) on a miss, nothing on a hit
MapValAfter(ident, t) ==
  IF ident \in DOMAIN map_val_ THEN map_val_ ELSE map_val_ @@ (ident :> t)

VisitAssignMapStatement ==
  /\ AtVisit("AssignMapStatement")
  /\ LET map_ident == Top.node.kids[1].ident
         errs == IF map_ident \in DOMAIN map_val_
                 THEN AssignMapErrors(map_ident, type_) ELSE <<>>
     IN  IF errs # <<>> /\ Aborts(errs[1].detail)
         THEN Abort
         ELSE /\ err_' = err_ \o errs
              /\ map_val_' = MapValAfter(map_ident, type_)
              /\ stack' = Return(type_)
              /\ UNCHANGED <<root_, pass_, type_, map_args_, pc, cerr, ret>>

VisitAssignMapCallStatement ==
  /\ AtVisit("AssignMapCallStatement")
  /\ LET map_ident == Top.node.kids[1].ident
         func == Top.node.kids[2].ident
         errs == IF map_ident \in DOMAIN map_val_
                 THEN AssignMapCallErrors(map_ident, func, type_) ELSE <<>>
     IN  IF errs # <<>> /\ Aborts(errs[1].detail)
         THEN Abort
         ELSE /\ err_' = err_ \o errs
              /\ map_val_' = MapValAfter(map_ident, type_)
              /\ stack' = Return(type_)
              /\ UNCHANGED <<root_, pass_, type_, map_args_, pc, cerr, ret>>

VisitPredicate ==
  /\ AtVisit("Predicate")
  /\ stack' = Return(type_)
  /\ UNCHANGED <<root_, pass_, type_, err_, map_args_, map_val_, pc, cerr, ret>>

VisitProbe ==
  /\ AtVisit("Probe")
  /\ stack' = Return(type_)
  /\ UNCHANGED <<root_, pass_, type_, err_, map_args_, map_val_, pc, cerr, ret>>

VisitProgram ==
  /\ AtVisit("Program")
  /\ stack' = Return(type_)
  /\ UNCHANGED <<root_, pass_, type_, err_, map_args_, map_val_, pc, cerr, ret>>

----------------------------------------------------------------------------
(* analyse(): for (pass_ = 1; pass_ <= 2; pass_++)                         *)

\* entry: pass_ = 1 and the first root_->accept(*this)
AnalyseBegin ==
  /\ pc = "start"
  /\ pass_' = 1
  /\ stack' = <<Frame(root_)>>
  /\ pc' = "walk"
  /\ UNCHANGED <<root_, type_, err_, map_args_, map_val_, cerr, ret>>

\* root_->accept() has returned
PassEnded == pc = "walk" /\ stack = <<>>

\* seeded fault: a failure is reported as pass 1 whatever the pass
AnalyseFailAsFirstPass ==
  /\ PassEnded
  /\ err_ # <<>>
  /\ cerr' = cerr \o err_
  /\ ret' = 1
  /\ pc' = "done"
  /\ UNCHANGED <<root_, pass_, type_, err_, map_args_, map_val_, stack>>

\* errors = err_.str(); if (!errors.empty()) { std::cerr << errors; return pass_; }
AnalyseFail ==
  /\ PassEnded
  /\ err_ # <<>>
  /\ cerr' = cerr \o err_
  /\ ret' = pass_
  /\ pc' = "done"
  /\ UNCHANGED <<root_, pass_, type_, err_, map_args_, map_val_, stack>>

\* seeded fault: the second pass starts from empty tables
AnalyseNextPassFromScratch ==
  /\ PassEnded
  /\ err_ = <<>>
  /\ pass_ + 1 <= 2
  /\ pass_' = pass_ + 1
  /\ stack' = <<Frame(root_)>>
  /\ map_args_' = <<>>
  /\ map_val_' = <<>>
  /\ UNCHANGED <<root_, type_, err_, pc, cerr, ret>>

\* pass_++, pass_ <= 2: the next root_->accept(*this)
AnalyseNextPass ==
  /\ PassEnded
  /\ err_ = <<>>
  /\ pass_ + 1 <= 2
  /\ pass_' = pass_ + 1
  /\ stack' = <<Frame(root_)>>
  /\ UNCHANGED <<root_, type_, err_, map_args_, map_val_, pc, cerr, ret>>

\* pass_++, pass_ > 2: return 0
AnalyseSuccess ==
  /\ PassEnded
  /\ err_ = <<>>
  /\ ~(pass_ + 1 <= 2)
  /\ pass_' = pass_ + 1
  /\ ret' = 0
  /\ pc' = "done"
  /\ UNCHANGED <<root_, type_, err_, map_args_, map_val_, stack, cerr>>

----------------------------------------------------------------------------
(* The programs explored.                                                  *)

SeqsUpTo(S, n) == UNION {[1..k -> S] : k \in 0..n}

\* a key is a literal or a value read from another map
KeyExprs == {Integer, Map("@y", <<>>)}

\* at most one key of a list is not a literal, and it comes first
KeyLists == {ks \in SeqsUpTo(KeyExprs, MaxKeys) : \A i \in 2..Len(ks) : ks[i] = Integer}

\* @x with every key list, @y without keys
Maps == {Map("@x", ks) : ks \in KeyLists} \cup {Map("@y", <<>>)}

Sources == {Integer, Map("@y", <<>>), Binop(Map("@y", <<>>), Integer)}

Exprs == Maps \cup {Builtin("nsecs"), Builtin("pid"), Builtin("tid"), Builtin("cpu"),
                    Unop(Map("@y", <<>>)),
                    Binop(Map("@x", <<>>), Integer), Binop(Map("@x", <<>>), Map("@y", <<>>))}

Calls == {Call(f, a) : f \in {"quantize", "count", "hist"}, a \in SeqsUpTo({Integer}, MaxArgs)}

Stmts == {ExprStatement(e) : e \in Exprs}
         \cup {AssignMapStatement(m, e) : m \in Maps, e \in Sources}
         \cup {AssignMapCallStatement(m, c) : m \in {Map("@x", <<>>), Map("@y", <<>>)}, c \in Calls}

\* one probe, two statements out of all of the above
StatementPrograms == {Program(<<Probe(<<>>, <<s1, s2>>)>>) : s1 \in Stmts, s2 \in Stmts}

\* up to MaxProbes probes, each with or without a predicate and with at most
\* one statement out of a few
FewStmts == {ExprStatement(Builtin("cpu")),
             ExprStatement(Builtin("comm")),
             AssignMapStatement(Map("@x", <<>>), Integer),
             AssignMapStatement(Map("@y", <<>>), Map("@x", <<>>)),
             AssignMapCallStatement(Map("@x", <<>>), Call("count", <<>>))}

Probes == {Probe(p, ss) : p \in {<<>>, <<Predicate(Binop(Map("@x", <<>>), Integer))>>},
                          ss \in {<<>>} \cup {<<s>> : s \in FewStmts}}

ProbePrograms == {Program(ps) : ps \in SeqsUpTo(Probes, MaxProbes)}

Programs == StatementPrograms \cup ProbePrograms

\* ret while analyse() has not returned
NoReturn == -1

\* no code of this file writes type_ before the first visit: it holds any bit
\* pattern until then; pass_ is written on entry to analyse()
Init ==
  /\ root_ \in Programs
  /\ pass_ = 0
  /\ type_ \in AnyType
  /\ err_ = <<>>
  /\ map_args_ = <<>>
  /\ map_val_ = <<>>
  /\ stack = <<>>
  /\ pc = "start"
  /\ cerr = <<>>
  /\ ret = NoReturn

Next ==
  \/ AnalyseBegin
  \/ Accept
  \/ VisitInteger
  \/ VisitBuiltin
  \/ VisitCall
  \/ VisitMap
  \/ VisitBinop
  \/ VisitUnop
  \/ VisitExprStatement
  \/ VisitAssignMapStatement
  \/ VisitAssignMapCallStatement
  \/ VisitPredicate
  \/ VisitProbe
  \/ VisitProgram
  \/ AnalyseFail
  \/ AnalyseNextPass
  \/ AnalyseSuccess

Spec == Init /\ [][Next]_vars

----------------------------------------------------------------------------
(* Vocabulary of the properties.                                           *)

IsArgMismatch(d) == d.kind = "Argument mismatch"

IsValueMismatch(d) == d.kind = "Type mismatch for map"

IsBinopMismatch(d) == d.kind = "Type mismatch for operator"

\* the diagnostics a step appended to err_
Appended == SubSeq(err_', Len(err_) + 1, Len(err_'))

\* err_ only grows
ErrExtended == Len(err_') >= Len(err_) /\ SubSeq(err_', 1, Len(err_)) = err_

RECURSIVE Flatten(_)
Flatten(ss) == IF ss = <<>> THEN <<>> ELSE Head(ss) \o Flatten(Tail(ss))

\* the nodes of a tree in visiting order (children first, in declared order)
RECURSIVE Visited(_)
Visited(n) == Flatten([i \in 1..Len(n.kids) |-> Visited(n.kids[i])]) \o <<n>>

NodesOf(n) == LET v == Visited(n) IN {v[i] : i \in 1..Len(v)}

IsAssignment(n) == n.kind \in {"AssignMapStatement", "AssignMapCallStatement"}

\* identifiers of the maps accessed, and of the maps assigned, anywhere
AccessedIdents(n) == {m.ident : m \in {x \in NodesOf(n) : x.kind = "Map"}}

AssignedIdents(n) == {a.kids[1].ident : a \in {x \in NodesOf(n) : IsAssignment(x)}}

----------------------------------------------------------------------------
\* C1: analyse() starts at most two walks, the second only after a first
\* that left err_ empty; when it has returned, the value is 1 or 2 exactly
\* when the pass of that number ended with a non-empty err_, 0 exactly when
\* err_ is empty after both passes, and std::cerr received err_ exactly when
\* the value is not 0.
C1_Returned ==
  pc = "done" =>
    /\ ret \in {0, 1, 2}
    /\ ret = 1 <=> (pass_ = 1 /\ err_ # <<>>)
    /\ ret = 2 <=> (pass_ = 2 /\ err_ # <<>>)
    /\ ret = 0 <=> (pass_ = 3 /\ err_ = <<>>)
    /\ cerr = (IF ret # 0 THEN err_ ELSE <<>>)
    /\ cerr # <<>> <=> ret # 0

C1_WalkStart ==
  /\ pass_' >= pass_
  /\ (stack = <<>> /\ stack' # <<>>) =>
       /\ pass_' = pass_ + 1
       /\ pass_' \in {1, 2}
       /\ pass_' = 2 => err_ = <<>>
  /\ (pc # "done" /\ pc' = "done" /\ ret' = 0) => (pass_ = 2 /\ err_ = <<>>)

C1_ReturnValue == [][C1_WalkStart /\ C1_Returned']_vars

C1_Witness == pc = "done" /\ ret = 2 /\ pass_ = 2 /\ cerr # <<>>

----------------------------------------------------------------------------
\* C4: an entry of map_args_ or of map_val_, once there, is never changed
\* or removed by any later step of either pass.
C4_EntriesKept ==
  /\ \A m \in DOMAIN map_args_ : m \in DOMAIN map_args_' /\ map_args_'[m] = map_args_[m]
  /\ \A m \in DOMAIN map_val_ : m \in DOMAIN map_val_' /\ map_val_'[m] = map_val_[m]

C4_WriteOnce == [][C4_EntriesKept]_vars

\* a later access and a later assignment that did not match were diagnosed
C4_Witness ==
  /\ \E i \in 1..Len(err_) : IsArgMismatch(err_[i]) /\ err_[i].ident \in DOMAIN map_args_
  /\ \E i \in 1..Len(err_) : IsValueMismatch(err_[i]) /\ err_[i].ident \in DOMAIN map_val_

----------------------------------------------------------------------------
\* C10: when pass 1 has completed, every map assigned anywhere in the
\* program has a value-type entry and every map accessed anywhere has a
\* key-signature entry; pass 2 leaves both tables as they are.
C10_AfterPass1 ==
  (pc' = "walk" /\ stack' = <<>> /\ pass_' = 1) =>
    /\ DOMAIN map_args_' = AccessedIdents(root_)
    /\ DOMAIN map_val_' = AssignedIdents(root_)

C10_Pass2Frame == pass_ = 2 => (map_args_' = map_args_ /\ map_val_' = map_val_)

C10_PopulatedInPass1 == [][C10_AfterPass1 /\ C10_Pass2Frame]_vars

\* pass 2 has run to its end over a program that accesses and assigns maps
C10_Witness ==
  /\ PassEnded /\ pass_ = 2
  /\ DOMAIN map_args_ = {"@x", "@y"}
  /\ DOMAIN map_val_ = {"@x", "@y"}

----------------------------------------------------------------------------
\* the step is std::abort() inside the handler on top
AbortStep == pc = "walk" /\ pc' = "aborted"

\* the type of a call as settled by the function's name alone
TypeByName(func) ==
  IF func = "quantize" THEN TQuantize ELSE IF func = "count" THEN TCount ELSE TNone

\* the type of a call as the claim states it: by name and argument count
TypeByNameAndArity(func, nargs) ==
  IF func = "quantize" /\ nargs = 1 THEN TQuantize
  ELSE IF func = "count" /\ nargs = 0 THEN TCount
  ELSE TNone

\* C3 as claimed: visit(Call) infers Quantize only for quantize with exactly
\* 1 argument, Count only for count with exactly 0 arguments, None in every
\* other case, a known function with a wrong argument count included.
C3_CallVisitByArity ==
  AtVisit("Call") => type_' = TypeByNameAndArity(Top.node.ident, Len(Top.node.kids))

C3_TypeByArity == [][C3_CallVisitByArity]_vars

\* C3 as amended: visit(Call) infers Quantize for quantize and Count for
\* count whatever the number of arguments (a wrong number only adds a
\* diagnostic), None for any other function; visit(AssignMapCallStatement)
\* records that type on the first assignment of the map and compares it with
\* the recorded type on a later one.
C3_CallVisit ==
  AtVisit("Call") =>
    LET func  == Top.node.ident
        nargs == Len(Top.node.kids)
        wrong == \/ func = "quantize" /\ nargs # 1
                 \/ func = "count" /\ nargs # 0
                 \/ func \notin {"quantize", "count"}
    IN  /\ type_' = TypeByName(func)
        /\ ErrExtended
        /\ Len(Appended) = (IF wrong THEN 1 ELSE 0)

C3_AssignCallVisit ==
  AtVisit("AssignMapCallStatement") =>
    LET m == Top.node.kids[1].ident
        t == TypeByName(Top.node.kids[2].ident)
    IN  IF m \in DOMAIN map_val_
        THEN (map_val_[m] # t) <=> (AbortStep \/ (Len(Appended) = 1 /\ IsValueMismatch(Appended[1])))
        ELSE m \in DOMAIN map_val_' /\ map_val_'[m] = t /\ err_' = err_

C3_TypeByName == [][C3_CallVisit /\ C3_AssignCallVisit]_vars

\* quantize with a wrong number of arguments was diagnosed and its type
\* recorded as the value type of a map
C3_Witness ==
  /\ \E i \in 1..Len(err_) : err_[i].kind = "quantize() should take 1 argument"
  /\ \E m \in DOMAIN map_val_ : map_val_[m] = TQuantize
  /\ \A i \in 1..Len(err_) : err_[i].kind # "Unknown function" /\ ~IsValueMismatch(err_[i])
  /\ PassEnded

----------------------------------------------------------------------------
\* C5: the first access to a map records its key types; every later access
\* appends exactly one key-signature mismatch if its key types differ from
\* the recorded ones (in length or in an element), and nothing if they are
\* equal.
C5_MapVisit ==
  AtVisit("Map") =>
    LET ident == Top.node.ident
        args  == Top.args
    IN  IF ident \in DOMAIN map_args_
        THEN /\ ErrExtended
             /\ IF map_args_[ident] # args
                THEN Len(Appended) = 1 /\ IsArgMismatch(Appended[1]) /\ Appended[1].ident = ident
                ELSE Appended = <<>>
        ELSE /\ ident \in DOMAIN map_args_' /\ map_args_'[ident] = args
             /\ err_' = err_

C5_KeySignature == [][C5_MapVisit]_vars

\* C5 on the visits that return
C5_KeySignatureUnlessAbort == [][AbortStep \/ C5_MapVisit]_vars

----------------------------------------------------------------------------
\* C6: the first assignment to a map (from an expression or from a call)
\* records the source's type; every later assignment, in any probe, appends
\* exactly one value-type mismatch if the source's type differs from the
\* recorded one, and nothing if it is equal.
C6_AssignVisit ==
  (AtVisit("AssignMapStatement") \/ AtVisit("AssignMapCallStatement")) =>
    LET ident == Top.node.kids[1].ident
    IN  IF ident \in DOMAIN map_val_
        THEN /\ ErrExtended
             /\ IF map_val_[ident] # type_
                THEN Len(Appended) = 1 /\ IsValueMismatch(Appended[1]) /\ Appended[1].ident = ident
                ELSE Appended = <<>>
        ELSE /\ ident \in DOMAIN map_val_' /\ map_val_'[ident] = type_
             /\ err_' = err_

C6_ValueType == [][C6_AssignVisit]_vars

\* C6 on the visits that return
C6_ValueTypeUnlessAbort == [][AbortStep \/ C6_AssignVisit]_vars

----------------------------------------------------------------------------
\* C8: visit(Binop) appends nothing in pass 1; in pass 2 it appends exactly
\* one operand mismatch if and only if the types of its operands differ; in
\* both passes it leaves Integer in type_.
C8_BinopVisit ==
  AtVisit("Binop") =>
    /\ ErrExtended
    /\ type_' = TInteger
    /\ IF pass_ = 2 /\ Top.args[1] # Top.args[2]
       THEN Len(Appended) = 1 /\ IsBinopMismatch(Appended[1])
       ELSE Appended = <<>>

C8_PassGated == [][C8_BinopVisit]_vars

\* C8 on the visits that return
C8_PassGatedUnlessAbort == [][AbortStep \/ C8_BinopVisit]_vars

\* no operand mismatch is ever in err_ while pass 1 is running or has failed
C8_NoneInPass1 == pass_ = 1 => \A i \in 1..Len(err_) : ~IsBinopMismatch(err_[i])

----------------------------------------------------------------------------
\* the diagnostics that depend on a node alone: unknown builtin, unknown
\* function, wrong number of arguments
NodeDiags(n) ==
  IF n.kind = "Builtin"
  THEN IF KnownBuiltin(n.ident) THEN <<>> ELSE <<Diag("Unknown builtin", n.ident, <<>>)>>
  ELSE IF n.kind = "Call" THEN CallErrors(n.ident, Len(n.kids))
  ELSE <<>>

IsNodeDiag(d) ==
  d.kind \in {"Unknown builtin", "Unknown function",
              "quantize() should take 1 argument", "count() should take 0 arguments"}

\* one diagnostic per such violation, in visiting order
ProgramDiags(root) ==
  LET v == Visited(root) IN Flatten([i \in 1..Len(v) |-> NodeDiags(v[i])])

TwoUnknownBuiltins ==
  Program(<<Probe(<<>>, <<ExprStatement(Builtin("cpu"))>>),
            Probe(<<>>, <<ExprStatement(Builtin("comm"))>>)>>)

\* the walk of a started pass is never cut short
C7_NeverStopped == pc # "aborted"

\* a pass that has ended has reported every violation of every node, in order
C7_AllReported ==
  (PassEnded \/ pc = "done") => SelectSeq(err_, IsNodeDiag) = ProgramDiags(root_)

C7_TwoProbes ==
  (root_ = TwoUnknownBuiltins /\ pc = "done") =>
    /\ ret = 1
    /\ cerr = <<Diag("Unknown builtin", "cpu", <<>>), Diag("Unknown builtin", "comm", <<>>)>>

\* C7: a rule violation never stops the walk: every started pass visits every
\* node in declared order, so a failing pass reports one diagnostic per
\* violation; two unknown builtins in two probes make analyse() return 1 with
\* exactly two diagnostics, in probe order.
C7_Batch == C7_NeverStopped /\ C7_AllReported /\ C7_TwoProbes

\* C7 on the passes that run to their end
C7_BatchUnlessAbort == C7_AllReported /\ C7_TwoProbes

----------------------------------------------------------------------------
\* a key-signature or value-type mismatch is in err_ during pass 2, or was
\* written to std::cerr when analyse() returned 2
C9_MapMismatchInPass2 ==
  \/ pass_ = 2 /\ \E i \in 1..Len(err_) : ~IsBinopMismatch(err_[i])
  \/ pc = "done" /\ ret = 2 /\ \E i \in 1..Len(cerr) : ~IsBinopMismatch(cerr[i])

\* C9: err_ is empty when pass 2 starts, and pass 2 appends no key-signature
\* and no value-type mismatch: whatever is in err_ in pass 2, and whatever
\* is written to std::cerr when analyse() returns 2, is an operand mismatch.
\* Stated for the programs in which every map accessed is assigned somewhere,
\* those that read a map before its first assignment included.
C9_PassInsensitive ==
  C9_MapMismatchInPass2 => ~(AccessedIdents(root_) \subseteq AssignedIdents(root_))

----------------------------------------------------------------------------
\* the type of an expression once every map has the value type val gives it
StaticType(e, val) ==
  CASE e.kind = "Integer" -> TInteger
    [] e.kind = "Builtin" -> IF KnownBuiltin(e.ident) THEN TInteger ELSE TNone
    [] e.kind = "Map"     -> val[e.ident]
    [] e.kind = "Call"    -> TypeByName(e.ident)
    [] OTHER              -> TInteger

KeyTypes(m, val) == [i \in 1..Len(m.kids) |-> StaticType(m.kids[i], val)]

\* the value types of the maps that agree with every assignment
SettledTypes(root) ==
  {val \in [AssignedIdents(root) -> Types] :
     \A a \in NodesOf(root) : IsAssignment(a) =>
       StaticType(a.kids[2], val) = val[a.kids[1].ident]}

\* all types of the program are consistent: no node is in error by itself,
\* every map accessed is assigned somewhere, the assignments settle the type
\* of every map in exactly one way, and with these types every access to a
\* map has the same key types and both operands of every binary operator
\* have the same type
Consistent(root) ==
  LET ns == NodesOf(root) IN
  /\ ProgramDiags(root) = <<>>
  /\ AccessedIdents(root) \subseteq AssignedIdents(root)
  /\ Cardinality(SettledTypes(root)) = 1
  /\ \A val \in SettledTypes(root) :
       /\ \A m1, m2 \in ns : (m1.kind = "Map" /\ m2.kind = "Map" /\ m1.ident = m2.ident) =>
            KeyTypes(m1, val) = KeyTypes(m2, val)
       /\ \A b \in ns : b.kind = "Binop" =>
            StaticType(b.kids[1], val) = StaticType(b.kids[2], val)

\* a map is an operand of a binary operator that is visited before the first
\* assignment to the map
ReadBeforeAssign(root) ==
  LET v == Visited(root) IN
  \E i \in 1..Len(v) :
    /\ v[i].kind = "Binop"
    /\ \E k \in 1..2 :
         /\ v[i].kids[k].kind = "Map"
         /\ \A j \in 1..(i - 1) :
              ~(IsAssignment(v[j]) /\ v[j].kids[1].ident = v[i].kids[k].ident)

\* an operand mismatch was reported, or analyse() returned a failure
C2_Failed ==
  \/ \E i \in 1..Len(err_) : IsBinopMismatch(err_[i])
  \/ pc = "done" /\ ret # 0

\* C2: a program that reads a map in a binary operation before the map's
\* first assignment, and whose types are otherwise consistent, gets no
\* operand mismatch and analyse() returns 0.  (Stated as: whenever the
\* analysis has failed, the program is not such a program.)
C2_ForwardRead == C2_Failed => ~(ReadBeforeAssign(root_) /\ Consistent(root_))

\* the plain case of C2: @x + 1 before @x = 1
ForwardReadProgram ==
  Program(<<Probe(<<>>, <<ExprStatement(Binop(Map("@x", <<>>), Integer)),
                          AssignMapStatement(Map("@x", <<>>), Integer)>>)>>)

C2_PlainCase ==
  root_ = ForwardReadProgram => (pc # "aborted" /\ ~C2_Failed)

====
